---- MODULE Spec2Model ----
(***************************************************************************)
(* CCD-Wrapper: the dispatch layer of src/src/ccd.cpp and the method       *)
(* registry of src/src/ccd.hpp.                                            *)
(*                                                                         *)
(* A query is one call of an entry point.  The backends are external       *)
(* libraries: what a backend does with a call (return a boolean and a      *)
(* time of impact, throw a C string, throw something else) is an input of  *)
(* the call, drawn from BackendOutcomes.  The build configuration (the     *)
(* preprocessor flags) is fixed at Init and never changes.                 *)
(*                                                                         *)
(* Scalars are integers: distances in units of 1e-8, times of impact in    *)
(* whole time steps (the window of the code is [0, 1]).                    *)
(***************************************************************************)
EXTENDS Integers, Sequences, FiniteSets, TLC

\* build, pc, query, result, ncalls: one caller issuing queries one after the
\* other.  conc: two threads issuing one query each at the same time.
VARIABLES build, pc, query, result, ncalls, conc

vars == <<build, pc, query, result, ncalls, conc>>

---------------------------------------------------------------------------
(* Bounds of the model *)

\* queries issued in one run
MaxCalls == 2
\* largest value of the method parameter that is drawn (tags >= NUM_CCD_METHODS
\* are outside the enumeration)
MaxMethodTag == 13
\* largest minimum separation distance a caller passes
MaxMinDistance == 2
\* largest time of impact a backend reports
MaxToi == 2
\* largest gap between a vertex and a triangle at rest, in tenths of a
\* distance unit (1e-9)
MaxGap == 12

---------------------------------------------------------------------------
(* enum CCDMethod, ccd.hpp:12-39 *)

FLOATING_POINT_ROOT_FINDER == 0
MIN_SEPARATION_ROOT_FINDER == 1
ROOT_PARITY == 2
RATIONAL_ROOT_PARITY == 3
FLOATING_POINT_ROOT_PARITY == 4
RATIONAL_FIXED_ROOT_PARITY == 5
BSC == 6
TIGHT_CCD == 7
SAFE_CCD == 8
UNIVARIATE_INTERVAL_ROOT_FINDER == 9
MULTIVARIATE_INTERVAL_ROOT_FINDER == 10
TIGHT_INCLUSION == 11
NUM_CCD_METHODS == 12

\* the values the method parameter takes in the model
MethodTags == 0..MaxMethodTag

\* static const char* method_names[NUM_CCD_METHODS]
method_names ==
    << "FloatingPointRootFinder", "MinSeparationRootFinder", "RootParity",
       "RationalRootParity", "FloatingPointRootParity",
       "RationalFixedRootParity", "BSC", "TightCCD", "SafeCCD",
       "UnivariateIntervalRootFinder", "MultivariateIntervalRootFinder",
       "TightInclusion" >>

\* static const double DEFAULT_MIN_DISTANCE = 1e-8 (one distance unit)
DEFAULT_MIN_DISTANCE == 1

---------------------------------------------------------------------------
(* Build configuration: the preprocessor flags read by ccd.cpp and ccd.hpp *)

Flags ==
    { "CCD_WRAPPER_WITH_FPRF", "CCD_WRAPPER_WITH_MSRF", "CCD_WRAPPER_WITH_RP",
      "CCD_WRAPPER_WITH_RRP", "CCD_WRAPPER_WITH_FPRP", "CCD_WRAPPER_WITH_RFRP",
      "CCD_WRAPPER_WITH_BSC", "CCD_WRAPPER_WITH_TIGHT_CCD",
      "CCD_WRAPPER_WITH_SAFE_CCD", "CCD_WRAPPER_WITH_INTERVAL",
      "CCD_WRAPPER_WITH_TIGHT_INCLUSION",
      "TIGHT_INCLUSION_WITH_DOUBLE_PRECISION" }

\* The builds explored: every flag set, every flag clear, and every build
\* that differs from one of these two in exactly one flag.
Builds ==
    { b \in [Flags -> BOOLEAN] :
        \/ Cardinality({f \in Flags : b[f]}) <= 1
        \/ Cardinality({f \in Flags : ~b[f]}) <= 1 }

---------------------------------------------------------------------------
(* Introspection predicates, ccd.hpp:281-362 *)

\* a plausible slip: the TIGHT_INCLUSION label is missing
is_minimum_separation_method_NoTightInclusion(method) ==
    CASE method = MIN_SEPARATION_ROOT_FINDER -> TRUE
      [] OTHER -> FALSE

is_minimum_separation_method(method) ==
    CASE method = MIN_SEPARATION_ROOT_FINDER -> TRUE
      [] method = TIGHT_INCLUSION -> TRUE
      [] OTHER -> FALSE

\* a plausible slip: the TIGHT_INCLUSION label, the last one added to the
\* enumeration, is missing from this table
is_conservative_method_NoTightInclusion(method) ==
    CASE method = MIN_SEPARATION_ROOT_FINDER -> TRUE
      [] method = TIGHT_CCD -> TRUE
      [] method = UNIVARIATE_INTERVAL_ROOT_FINDER -> TRUE
      [] method = MULTIVARIATE_INTERVAL_ROOT_FINDER -> TRUE
      [] OTHER -> FALSE

is_conservative_method(method) ==
    CASE method = MIN_SEPARATION_ROOT_FINDER -> TRUE
      [] method = TIGHT_CCD -> TRUE
      [] method = UNIVARIATE_INTERVAL_ROOT_FINDER -> TRUE
      [] method = MULTIVARIATE_INTERVAL_ROOT_FINDER -> TRUE
      [] method = TIGHT_INCLUSION -> TRUE
      [] OTHER -> FALSE

\* a plausible slip: a range test in place of the last labels, which lets
\* every larger tag through
is_time_of_impact_computed_RangeTest(method) ==
    CASE method = FLOATING_POINT_ROOT_FINDER -> TRUE
      [] method = MIN_SEPARATION_ROOT_FINDER -> TRUE
      [] method >= UNIVARIATE_INTERVAL_ROOT_FINDER -> TRUE
      [] OTHER -> FALSE

is_time_of_impact_computed(method) ==
    CASE method = FLOATING_POINT_ROOT_FINDER -> TRUE
      [] method = MIN_SEPARATION_ROOT_FINDER -> TRUE
      [] method = UNIVARIATE_INTERVAL_ROOT_FINDER -> TRUE
      [] method = MULTIVARIATE_INTERVAL_ROOT_FINDER -> TRUE
      [] method = TIGHT_INCLUSION -> TRUE
      [] OTHER -> FALSE

\* a plausible slip: the BSC case answers with the TightCCD flag
is_method_enabled_WrongFlag(b, method) ==
    CASE method = FLOATING_POINT_ROOT_FINDER -> b["CCD_WRAPPER_WITH_FPRF"]
      [] method = MIN_SEPARATION_ROOT_FINDER -> b["CCD_WRAPPER_WITH_MSRF"]
      [] method = ROOT_PARITY -> b["CCD_WRAPPER_WITH_RP"]
      [] method = RATIONAL_ROOT_PARITY -> b["CCD_WRAPPER_WITH_RRP"]
      [] method = FLOATING_POINT_ROOT_PARITY -> b["CCD_WRAPPER_WITH_FPRP"]
      [] method = RATIONAL_FIXED_ROOT_PARITY -> b["CCD_WRAPPER_WITH_RFRP"]
      [] method = BSC -> b["CCD_WRAPPER_WITH_TIGHT_CCD"]
      [] method = TIGHT_CCD -> b["CCD_WRAPPER_WITH_TIGHT_CCD"]
      [] method = SAFE_CCD -> b["CCD_WRAPPER_WITH_SAFE_CCD"]
      [] method = UNIVARIATE_INTERVAL_ROOT_FINDER -> b["CCD_WRAPPER_WITH_INTERVAL"]
      [] method = MULTIVARIATE_INTERVAL_ROOT_FINDER -> b["CCD_WRAPPER_WITH_INTERVAL"]
      [] method = TIGHT_INCLUSION -> b["CCD_WRAPPER_WITH_TIGHT_INCLUSION"]
      [] OTHER -> FALSE

is_method_enabled(b, method) ==
    CASE method = FLOATING_POINT_ROOT_FINDER -> b["CCD_WRAPPER_WITH_FPRF"]
      [] method = MIN_SEPARATION_ROOT_FINDER -> b["CCD_WRAPPER_WITH_MSRF"]
      [] method = ROOT_PARITY -> b["CCD_WRAPPER_WITH_RP"]
      [] method = RATIONAL_ROOT_PARITY -> b["CCD_WRAPPER_WITH_RRP"]
      [] method = FLOATING_POINT_ROOT_PARITY -> b["CCD_WRAPPER_WITH_FPRP"]
      [] method = RATIONAL_FIXED_ROOT_PARITY -> b["CCD_WRAPPER_WITH_RFRP"]
      [] method = BSC -> b["CCD_WRAPPER_WITH_BSC"]
      [] method = TIGHT_CCD -> b["CCD_WRAPPER_WITH_TIGHT_CCD"]
      [] method = SAFE_CCD -> b["CCD_WRAPPER_WITH_SAFE_CCD"]
      [] method = UNIVARIATE_INTERVAL_ROOT_FINDER -> b["CCD_WRAPPER_WITH_INTERVAL"]
      [] method = MULTIVARIATE_INTERVAL_ROOT_FINDER -> b["CCD_WRAPPER_WITH_INTERVAL"]
      [] method = TIGHT_INCLUSION -> b["CCD_WRAPPER_WITH_TIGHT_INCLUSION"]
      [] OTHER -> FALSE

---------------------------------------------------------------------------
(* Inputs of a query *)

\* The eight points of a vertex-face query, by parameter name.  Each point
\* is its own label, so a permutation by the dispatcher shows in the call.
VFPoints ==
    [ vertex_start |-> "vertex_start",
      face_vertex0_start |-> "face_vertex0_start",
      face_vertex1_start |-> "face_vertex1_start",
      face_vertex2_start |-> "face_vertex2_start",
      vertex_end |-> "vertex_end",
      face_vertex0_end |-> "face_vertex0_end",
      face_vertex1_end |-> "face_vertex1_end",
      face_vertex2_end |-> "face_vertex2_end" ]

\* The eight points of an edge-edge query, by parameter name.
EEPoints ==
    [ edge0_vertex0_start |-> "edge0_vertex0_start",
      edge0_vertex1_start |-> "edge0_vertex1_start",
      edge1_vertex0_start |-> "edge1_vertex0_start",
      edge1_vertex1_start |-> "edge1_vertex1_start",
      edge0_vertex0_end |-> "edge0_vertex0_end",
      edge0_vertex1_end |-> "edge0_vertex1_end",
      edge1_vertex0_end |-> "edge1_vertex0_end",
      edge1_vertex1_end |-> "edge1_vertex1_end" ]

\* The configuration a caller holds.  The default arguments of the
\* declarations (tolerance 1e-6 = 100 units, max_iter 1'000'000,
\* err {-1, 0, 0}) and one other setting in which every value differs.
\* max_time_window is the time window the caller wants checked, in time
\* steps; the entry points have no parameter for it, so a call passes only
\* tolerance, max_iter and err.
DefaultConfig ==
    [tolerance |-> 100, max_iter |-> 1000000, err |-> <<-1, 0, 0>>,
     max_time_window |-> 1]

Configs ==
    { DefaultConfig,
      [tolerance |-> 7, max_iter |-> 50, err |-> <<3, 4, 5>>,
       max_time_window |-> 2] }

\* what an uninitialized Array3 may hold
ErrValues == { c.err : c \in Configs } \cup { <<9, 9, 9>> }

MinDistances == 0..MaxMinDistance

Tois == (0 - 1)..MaxToi

\* What the backend does with the one call it receives.
BackendOutcomes ==
    [kind : {"ret"}, hit : BOOLEAN, toi : Tois, msg : {""}]
      \cup { [kind |-> "throw_str", hit |-> FALSE, toi |-> 0, msg |-> "backend failure"],
             [kind |-> "throw_other", hit |-> FALSE, toi |-> 0, msg |-> ""] }

\* What reading method_names[method] with method >= NUM_CCD_METHODS does:
\* the process faults, or some bytes are printed as the name.
OobOutcomes == { "crash", "garbage" }

\* The environment of one call: the backend's behaviour and the outcomes of
\* the undefined reads the call may perform.
Envs(prim, method) ==
    [ o : BackendOutcomes,
      oob : IF method >= NUM_CCD_METHODS THEN OobOutcomes ELSE {"none"},
      uninit_err : IF prim = "Edge-edge" /\ method = TIGHT_INCLUSION
                   THEN ErrValues ELSE {<<0, 0, 0>>} ]

---------------------------------------------------------------------------
(* Outcomes of a function body and of a call *)

\* kind: "return" (ret is the value), "throw_str" (a const char* is in
\* flight, msg is its text), "throw_other" (another exception is in flight),
\* "crash" (the process faulted).  cerr and cout are what the call wrote,
\* calls the backend invocations it made, depth the number of nested
\* wrapper functions it entered, fwd the minimum separation of each call it
\* made to a minimum-separation dispatcher.
Return(v, calls) ==
    [kind |-> "return", ret |-> v, msg |-> "", cerr |-> <<>>, cout |-> <<>>,
     calls |-> calls, depth |-> 1, fwd |-> <<>>]

Throw(msg, calls, out) ==
    [kind |-> "throw_str", ret |-> FALSE, msg |-> msg, cerr |-> <<>>,
     cout |-> out, calls |-> calls, depth |-> 1, fwd |-> <<>>]

ThrowOther(calls) ==
    [kind |-> "throw_other", ret |-> FALSE, msg |-> "", cerr |-> <<>>,
     cout |-> <<>>, calls |-> calls, depth |-> 1, fwd |-> <<>>]

\* `return vertexFaceMSCCD(..., min_distance, method, ...)`: the value of
\* the nested wrapper call is returned as is
Forward(min_distance, inner) ==
    [inner EXCEPT !.depth = @ + 1, !.fwd = <<min_distance>> \o @]

\* one backend invocation: the function, the points in the order passed,
\* the other arguments in the order passed
BackendCall(fn, pts, args) == [fn |-> fn, pts |-> pts, args |-> args]

Arg(name, v) == <<name, <<v>>>>

\* a plausible slip: after a fault of the backend the query is tried again
\* with the floating-point root finder
Invoke_RetriesOnFault(call, o) ==
    IF o.kind = "ret"
    THEN Return(o.hit, <<call>>)
    ELSE Return(TRUE, <<call, BackendCall("CTCD::vertexFaceCTCD", call.pts,
                                          <<Arg("eta", 0)>>)>>)

\* `return backend(...)`
Invoke(call, o) ==
    CASE o.kind = "ret" -> Return(o.hit, <<call>>)
      [] o.kind = "throw_str" -> Throw(o.msg, <<call>>, <<>>)
      [] OTHER -> ThrowOther(<<call>>)

\* a plausible slip: the upper end of the window is excluded
ToiOutOfRange_Strict(toi) == toi < 0 \/ toi >= 1

\* `toi < 0 || toi > 1`
ToiOutOfRange(toi) == toi < 0 \/ toi > 1

\* `bool hit = backend(..., toi); if (hit && (toi < 0 || toi > 1)) {
\*  std::cout << toi << std::endl; throw "toi out of range"; } return hit;`
InvokeWindowed(call, o) ==
    CASE o.kind = "ret" ->
           IF o.hit /\ ToiOutOfRange(o.toi)
           THEN Throw("toi out of range", <<call>>, <<o.toi>>)
           ELSE Return(o.hit, <<call>>)
      [] o.kind = "throw_str" -> Throw(o.msg, <<call>>, <<>>)
      [] OTHER -> ThrowOther(<<call>>)

NotEnabled == "CCD method is not enabled"

\* one line on std::cerr.  form "because": `<prim> CCD failed because
\* "<cause>" for <name>`; form "unknown": `<prim> CCD failed for unknown
\* reason when using <name>`.  complete is FALSE when the process faulted
\* while the name was being written.
Diag(prim, form, cause, name, complete) ==
    [prim |-> prim, form |-> form, cause |-> cause, name |-> name,
     complete |-> complete]

\* The body of a catch clause: `std::cerr << "<prim> CCD failed ..." <<
\* method_names[method] << std::endl; return true;`.  method_names has
\* NUM_CCD_METHODS entries: for a larger method the read is out of bounds
\* and env.oob says what it does.
Handler(prim, form, method, body, env) ==
    IF method >= 0 /\ method < NUM_CCD_METHODS
    THEN [body EXCEPT !.kind = "return", !.ret = TRUE, !.msg = "",
            !.cerr = Append(@, Diag(prim, form, body.msg,
                                    method_names[method + 1], TRUE))]
    ELSE IF env.oob = "crash"
    THEN [body EXCEPT !.kind = "crash", !.ret = FALSE, !.msg = "",
            !.cerr = Append(@, Diag(prim, form, body.msg, "", FALSE))]
    ELSE [body EXCEPT !.kind = "return", !.ret = TRUE, !.msg = "",
            !.cerr = Append(@, Diag(prim, form, body.msg, "<garbage>", TRUE))]

\* a plausible slip: the `catch (...)` clause is missing
Catch_NoCatchAll(prim, method, body, env) ==
    IF body.kind = "throw_str"
    THEN Handler(prim, "because", method, body, env)
    ELSE body

\* `try { ... } catch (const char* err) { ... } catch (...) { ... }`
Catch(prim, method, body, env) ==
    CASE body.kind \in {"return", "crash"} -> body
      [] body.kind = "throw_str" -> Handler(prim, "because", method, body, env)
      [] OTHER -> Handler(prim, "unknown", method, body, env)

---------------------------------------------------------------------------
(* Point orders passed to the backends *)

\* (point, triangle) at t = 0, then at t = 1, in the caller's order
VFCallerOrder(p) ==
    << p.vertex_start, p.face_vertex0_start, p.face_vertex1_start,
       p.face_vertex2_start,
       p.vertex_end, p.face_vertex0_end, p.face_vertex1_end,
       p.face_vertex2_end >>

\* a plausible slip: the swap of face_vertex0 and face_vertex1 is made at
\* t = 0 only
VFRootParityOrder_StartOnly(p) ==
    << p.vertex_start, p.face_vertex1_start, p.face_vertex0_start,
       p.face_vertex2_start,
       p.vertex_end, p.face_vertex0_end, p.face_vertex1_end,
       p.face_vertex2_end >>

\* rootparity::RootParityCollisionTest: face_vertex1 before face_vertex0
VFRootParityOrder(p) ==
    << p.vertex_start, p.face_vertex1_start, p.face_vertex0_start,
       p.face_vertex2_start,
       p.vertex_end, p.face_vertex1_end, p.face_vertex0_end,
       p.face_vertex2_end >>

\* bsc::Intersect_VF_robust, bsc_tightbound::Intersect_VF_robust: the
\* triangle before the point
VFTriangleFirstOrder(p) ==
    << p.face_vertex0_start, p.face_vertex1_start, p.face_vertex2_start,
       p.vertex_start,
       p.face_vertex0_end, p.face_vertex1_end, p.face_vertex2_end,
       p.vertex_end >>

\* safeccd: calculate_B takes the caller's order; Vertex_Triangle_CCD takes
\* (vs, ve, f0s, f0e, f1s, f1e, f2s, f2e)
VFSafeCCDOrder(p) ==
    << p.vertex_start, p.vertex_end, p.face_vertex0_start, p.face_vertex0_end,
       p.face_vertex1_start, p.face_vertex1_end, p.face_vertex2_start,
       p.face_vertex2_end >>

\* both edges at t = 0, then at t = 1, in the caller's order
EECallerOrder(p) ==
    << p.edge0_vertex0_start, p.edge0_vertex1_start, p.edge1_vertex0_start,
       p.edge1_vertex1_start,
       p.edge0_vertex0_end, p.edge0_vertex1_end, p.edge1_vertex0_end,
       p.edge1_vertex1_end >>

\* safeccd Edge_Edge_CCD: (vs, ve, f0s, f0e, f1s, f1e, f2s, f2e)
EESafeCCDOrder(p) ==
    << p.edge0_vertex0_start, p.edge0_vertex0_end, p.edge0_vertex1_start,
       p.edge0_vertex1_end, p.edge1_vertex0_start, p.edge1_vertex0_end,
       p.edge1_vertex1_start, p.edge1_vertex1_end >>

\* the arguments of ticcd::vertexFaceCCD / ticcd::edgeEdgeCCD after the points
TightInclusionArgs(err, min_distance, tolerance, t_max, max_iter, CCD_TYPE) ==
    << <<"err", err>>, Arg("ms", min_distance), Arg("tolerance", tolerance),
       Arg("t_max", t_max), Arg("max_itr", max_iter), Arg("CCD_TYPE", CCD_TYPE) >>

---------------------------------------------------------------------------
(* Double precision, minimum separation: ccd.cpp:521-688 *)

\* a plausible slip: the backend is told to search two time steps
t_max_TwoSteps == 1 + 1

\* `const double t_max = 1.0;`
t_max == 1

\* `const int CCD_TYPE = 1;`
CCD_TYPE == 1

\* The preprocessor condition of the double-precision TIGHT_INCLUSION cases
TightInclusionDouble(b) ==
    b["CCD_WRAPPER_WITH_TIGHT_INCLUSION"] /\ b["TIGHT_INCLUSION_WITH_DOUBLE_PRECISION"]

\* The preprocessor condition of the single-precision TIGHT_INCLUSION cases
TightInclusionFloat(b) ==
    b["CCD_WRAPPER_WITH_TIGHT_INCLUSION"] /\ ~b["TIGHT_INCLUSION_WITH_DOUBLE_PRECISION"]

vertexFaceMSCCD(b, p, min_distance, method, tolerance, max_iter, err, env) ==
    Catch("Vertex-face", method,
      CASE method = MIN_SEPARATION_ROOT_FINDER ->
             IF b["CCD_WRAPPER_WITH_MSRF"]
             THEN InvokeWindowed(
                    BackendCall("msccd::root_finder::vertexFaceMSCCD",
                                VFCallerOrder(p), <<Arg("min_distance", min_distance)>>),
                    env.o)
             ELSE Throw(NotEnabled, <<>>, <<>>)
        [] method = TIGHT_INCLUSION ->
             IF TightInclusionDouble(b)
             THEN Invoke(
                    BackendCall("ticcd::vertexFaceCCD", VFCallerOrder(p),
                                TightInclusionArgs(err, min_distance, tolerance,
                                                   t_max, max_iter, CCD_TYPE)),
                    env.o)
             ELSE Throw(NotEnabled, <<>>, <<>>)
        [] OTHER -> Throw("Invalid Minimum Separation CCDMethod", <<>>, <<>>),
      env)

\* TIGHT_INCLUSION: `ticcd::Array3 err;` hides the parameter err, and the
\* uninitialized local is what the backend receives (env.uninit_err).
edgeEdgeMSCCD(b, p, min_distance, method, tolerance, max_iter, err, env) ==
    Catch("Edge-edge", method,
      CASE method = MIN_SEPARATION_ROOT_FINDER ->
             IF b["CCD_WRAPPER_WITH_MSRF"]
             THEN InvokeWindowed(
                    BackendCall("msccd::root_finder::edgeEdgeMSCCD",
                                EECallerOrder(p), <<Arg("min_distance", min_distance)>>),
                    env.o)
             ELSE Throw(NotEnabled, <<>>, <<>>)
        [] method = TIGHT_INCLUSION ->
             IF TightInclusionDouble(b)
             THEN Invoke(
                    BackendCall("ticcd::edgeEdgeCCD", EECallerOrder(p),
                                TightInclusionArgs(env.uninit_err, min_distance,
                                                   tolerance, t_max, max_iter,
                                                   CCD_TYPE)),
                    env.o)
             ELSE Throw(NotEnabled, <<>>, <<>>)
        [] OTHER -> Throw("Invalid Minimum Separation CCDMethod", <<>>, <<>>),
      env)

---------------------------------------------------------------------------
(* Double precision, all methods: ccd.cpp:55-518 *)

\* a plausible slip: the TIGHT_INCLUSION case copies the distance of the
\* MIN_SEPARATION_ROOT_FINDER case
TightInclusionMinDistance_Default == DEFAULT_MIN_DISTANCE

\* `/*minimum_distance=*/0` of the TIGHT_INCLUSION cases
TightInclusionMinDistance == 0

\* `#if FLAG return backend(...); #else throw "CCD method is not enabled";`
IfEnabled(enabled, call, env) ==
    IF enabled THEN Invoke(call, env.o) ELSE Throw(NotEnabled, <<>>, <<>>)

\* The SAFE_CCD cases: `double b = safeccd::calculate_B(...);
\* safe.Set_Coefficients(b); ... return safe.Vertex_Triangle_CCD(...);`.
\* Three calls into the one library; the behaviour drawn for the backend is
\* that of the last, which produces the answer.
SafeCCD(enabled, points, is_edge_edge, call, env) ==
    IF enabled
    THEN [Invoke(call, env.o) EXCEPT
            !.calls = << BackendCall("safeccd::calculate_B", points,
                                     <<Arg("is_edge_edge", is_edge_edge)>>),
                         BackendCall("safeccd::SAFE_CCD::Set_Coefficients",
                                     <<>>, <<>>) >> \o @]
    ELSE Throw(NotEnabled, <<>>, <<>>)

vertexFaceCCD(b, p, method, tolerance, max_iter, err, env) ==
    Catch("Vertex-face", method,
      CASE method = FLOATING_POINT_ROOT_FINDER ->
             IfEnabled(b["CCD_WRAPPER_WITH_FPRF"],
                       BackendCall("CTCD::vertexFaceCTCD", VFCallerOrder(p),
                                   <<Arg("eta", 0)>>), env)
        [] method = MIN_SEPARATION_ROOT_FINDER ->
             IF b["CCD_WRAPPER_WITH_MSRF"]
             THEN Forward(DEFAULT_MIN_DISTANCE,
                          vertexFaceMSCCD(b, p, DEFAULT_MIN_DISTANCE, method,
                                          tolerance, max_iter, err, env))
             ELSE Throw(NotEnabled, <<>>, <<>>)
        [] method = ROOT_PARITY ->
             IfEnabled(b["CCD_WRAPPER_WITH_RP"],
                       BackendCall("rootparity::RootParityCollisionTest",
                                   VFRootParityOrder(p),
                                   <<Arg("is_edge_edge", 0)>>), env)
        [] method = RATIONAL_ROOT_PARITY ->
             IfEnabled(b["CCD_WRAPPER_WITH_RRP"],
                       BackendCall("eccd::vertexFaceCCD", VFCallerOrder(p), <<>>), env)
        [] method = FLOATING_POINT_ROOT_PARITY ->
             IfEnabled(b["CCD_WRAPPER_WITH_FPRP"],
                       BackendCall("doubleccd::vertexFaceCCD", VFCallerOrder(p), <<>>), env)
        [] method = RATIONAL_FIXED_ROOT_PARITY ->
             IfEnabled(b["CCD_WRAPPER_WITH_RFRP"],
                       BackendCall("ccd::vertexFaceCCD", VFCallerOrder(p), <<>>), env)
        [] method = TIGHT_INCLUSION ->
             Forward(TightInclusionMinDistance,
                     vertexFaceMSCCD(b, p, TightInclusionMinDistance, method,
                                     tolerance, max_iter, err, env))
        [] method = BSC ->
             IfEnabled(b["CCD_WRAPPER_WITH_BSC"],
                       BackendCall("bsc::Intersect_VF_robust",
                                   VFTriangleFirstOrder(p), <<>>), env)
        [] method = TIGHT_CCD ->
             IfEnabled(b["CCD_WRAPPER_WITH_TIGHT_CCD"],
                       BackendCall("bsc_tightbound::Intersect_VF_robust",
                                   VFTriangleFirstOrder(p), <<>>), env)
        [] method = SAFE_CCD ->
             SafeCCD(b["CCD_WRAPPER_WITH_SAFE_CCD"], VFCallerOrder(p), 0,
                     BackendCall("safeccd::SAFE_CCD::Vertex_Triangle_CCD",
                                 VFSafeCCDOrder(p), <<>>), env)
        [] method = UNIVARIATE_INTERVAL_ROOT_FINDER ->
             IfEnabled(b["CCD_WRAPPER_WITH_INTERVAL"],
                       BackendCall("intervalccd::vertexFaceCCD_Redon",
                                   VFCallerOrder(p), <<>>), env)
        [] method = MULTIVARIATE_INTERVAL_ROOT_FINDER ->
             IfEnabled(b["CCD_WRAPPER_WITH_INTERVAL"],
                       BackendCall("intervalccd::vertexFaceCCD_Interval",
                                   VFCallerOrder(p), <<>>), env)
        [] OTHER -> Throw("Invalid CCDMethod", <<>>, <<>>),
      env)

edgeEdgeCCD(b, p, method, tolerance, max_iter, err, env) ==
    Catch("Edge-edge", method,
      CASE method = FLOATING_POINT_ROOT_FINDER ->
             IfEnabled(b["CCD_WRAPPER_WITH_FPRF"],
                       BackendCall("CTCD::edgeEdgeCTCD", EECallerOrder(p),
                                   <<Arg("eta", 0)>>), env)
        [] method = MIN_SEPARATION_ROOT_FINDER ->
             IF b["CCD_WRAPPER_WITH_MSRF"]
             THEN Forward(DEFAULT_MIN_DISTANCE,
                          edgeEdgeMSCCD(b, p, DEFAULT_MIN_DISTANCE, method,
                                        tolerance, max_iter, err, env))
             ELSE Throw(NotEnabled, <<>>, <<>>)
        [] method = ROOT_PARITY ->
             IfEnabled(b["CCD_WRAPPER_WITH_RP"],
                       BackendCall("rootparity::RootParityCollisionTest",
                                   EECallerOrder(p),
                                   <<Arg("is_edge_edge", 1)>>), env)
        [] method = RATIONAL_ROOT_PARITY ->
             IfEnabled(b["CCD_WRAPPER_WITH_RRP"],
                       BackendCall("eccd::edgeEdgeCCD", EECallerOrder(p), <<>>), env)
        [] method = FLOATING_POINT_ROOT_PARITY ->
             IfEnabled(b["CCD_WRAPPER_WITH_FPRP"],
                       BackendCall("doubleccd::edgeEdgeCCD", EECallerOrder(p), <<>>), env)
        [] method = RATIONAL_FIXED_ROOT_PARITY ->
             IfEnabled(b["CCD_WRAPPER_WITH_RFRP"],
                       BackendCall("ccd::edgeEdgeCCD", EECallerOrder(p), <<>>), env)
        [] method = TIGHT_INCLUSION ->
             Forward(TightInclusionMinDistance,
                     edgeEdgeMSCCD(b, p, TightInclusionMinDistance, method,
                                   tolerance, max_iter, err, env))
        [] method = BSC ->
             IfEnabled(b["CCD_WRAPPER_WITH_BSC"],
                       BackendCall("bsc::Intersect_EE_robust", EECallerOrder(p), <<>>), env)
        [] method = TIGHT_CCD ->
             IfEnabled(b["CCD_WRAPPER_WITH_TIGHT_CCD"],
                       BackendCall("bsc_tightbound::Intersect_EE_robust",
                                   EECallerOrder(p), <<>>), env)
        [] method = SAFE_CCD ->
             SafeCCD(b["CCD_WRAPPER_WITH_SAFE_CCD"], EECallerOrder(p), 1,
                     BackendCall("safeccd::SAFE_CCD::Edge_Edge_CCD",
                                 EESafeCCDOrder(p), <<>>), env)
        [] method = UNIVARIATE_INTERVAL_ROOT_FINDER ->
             IfEnabled(b["CCD_WRAPPER_WITH_INTERVAL"],
                       BackendCall("intervalccd::edgeEdgeCCD_Redon",
                                   EECallerOrder(p), <<>>), env)
        [] method = MULTIVARIATE_INTERVAL_ROOT_FINDER ->
             IfEnabled(b["CCD_WRAPPER_WITH_INTERVAL"],
                       BackendCall("intervalccd::edgeEdgeCCD_Interval",
                                   EECallerOrder(p), <<>>), env)
        [] OTHER -> Throw("Invalid CCDMethod", <<>>, <<>>),
      env)

---------------------------------------------------------------------------
(* Single precision: ccd.cpp:692-874 *)

vertexFaceMSCCD_float(b, p, min_distance, method, tolerance, max_iter, err, env) ==
    Catch("Vertex-face", method,
      CASE method = TIGHT_INCLUSION ->
             IF TightInclusionFloat(b)
             THEN Invoke(
                    BackendCall("ticcd::vertexFaceCCD", VFCallerOrder(p),
                                TightInclusionArgs(err, min_distance, tolerance,
                                                   t_max, max_iter, CCD_TYPE)),
                    env.o)
             ELSE Throw(NotEnabled, <<>>, <<>>)
        [] OTHER -> Throw("Invalid Minimum Separation CCDMethod", <<>>, <<>>),
      env)

\* TIGHT_INCLUSION: `ticcd::Array3 err;` hides the parameter err here too.
edgeEdgeMSCCD_float(b, p, min_distance, method, tolerance, max_iter, err, env) ==
    Catch("Edge-edge", method,
      CASE method = TIGHT_INCLUSION ->
             IF TightInclusionFloat(b)
             THEN Invoke(
                    BackendCall("ticcd::edgeEdgeCCD", EECallerOrder(p),
                                TightInclusionArgs(env.uninit_err, min_distance,
                                                   tolerance, t_max, max_iter,
                                                   CCD_TYPE)),
                    env.o)
             ELSE Throw(NotEnabled, <<>>, <<>>)
        [] OTHER -> Throw("Invalid Minimum Separation CCDMethod", <<>>, <<>>),
      env)

\* no try block: `switch (method) { case TIGHT_INCLUSION: return
\* vertexFaceMSCCD(...); } throw "Unimplemented";`
vertexFaceCCD_float(b, p, method, tolerance, max_iter, err, env) ==
    IF method = TIGHT_INCLUSION
    THEN Forward(TightInclusionMinDistance,
                 vertexFaceMSCCD_float(b, p, TightInclusionMinDistance, method,
                                       tolerance, max_iter, err, env))
    ELSE Throw("Unimplemented", <<>>, <<>>)

\* no switch and no try block: every method is forwarded
edgeEdgeCCD_float(b, p, method, tolerance, max_iter, err, env) ==
    Forward(TightInclusionMinDistance,
            edgeEdgeMSCCD_float(b, p, TightInclusionMinDistance, method,
                                tolerance, max_iter, err, env))

---------------------------------------------------------------------------
(* The state machine: a caller issuing queries one after the other *)

\* the backend was not called
NoOutcome == [kind |-> "none", hit |-> FALSE, toi |-> 0, msg |-> ""]

NoQuery ==
    [entry |-> "none", prec |-> "none", method |-> 0, min_distance |-> <<>>,
     cfg |-> DefaultConfig,
     env |-> [o |-> NoOutcome, oob |-> "none", uninit_err |-> <<0, 0, 0>>]]

NoResult ==
    [kind |-> "none", ret |-> FALSE, msg |-> "", cerr |-> <<>>, cout |-> <<>>,
     calls |-> <<>>, depth |-> 0, fwd |-> <<>>]

\* the threads of the concurrent runs
Threads == { "A", "B" }

\* a thread that has not called yet
ThreadIdle ==
    [pc |-> "idle", entry |-> "none", body |-> "none", method |-> 0,
     o |-> NoOutcome, oob |-> "none", msg |-> "", form |-> "", ret |-> FALSE]

\* the locals `double toi` and `bool hit` of one activation, before the
\* backend wrote them
NoLocals == [toi |-> 0, hit |-> FALSE]

\* th: the threads; mem: the storage of the locals toi and hit, by
\* activation; cerr, cout: the streams of the process, each entry with the
\* thread that wrote it; crashed: the process faulted
NoConc ==
    [th |-> [t \in Threads |-> ThreadIdle],
     mem |-> [f \in Threads \cup {"static"} |-> NoLocals],
     cerr |-> <<>>, cout |-> <<>>, crashed |-> FALSE]

Init ==
    /\ build \in Builds
    /\ pc = "idle"
    /\ query = NoQuery
    /\ result = NoResult
    /\ ncalls = 0
    /\ conc = NoConc

\* a plausible slip: a registry kept at run time, from which a method whose
\* call failed is removed
Finish_UnregistersOnFailure(entry, prec, method, md, cfg, env, r) ==
    /\ query' = [entry |-> entry, prec |-> prec, method |-> method,
                 min_distance |-> md, cfg |-> cfg,
                 env |-> IF r.calls = <<>> THEN [env EXCEPT !.o = NoOutcome]
                         ELSE env]
    /\ result' = r
    /\ pc' = CASE r.kind = "return" -> "returned"
               [] r.kind = "crash" -> "crashed"
               [] OTHER -> "raised"
    /\ ncalls' = ncalls + 1
    /\ build' = IF r.cerr # <<>> /\ method = MIN_SEPARATION_ROOT_FINDER
                THEN [build EXCEPT !["CCD_WRAPPER_WITH_MSRF"] = FALSE]
                ELSE build
    /\ UNCHANGED conc

\* The call ends: by a return, by an exception that leaves the entry point,
\* or by a fault of the process.  The query keeps the backend's behaviour
\* only when the backend was called.
Finish(entry, prec, method, md, cfg, env, r) ==
    /\ query' = [entry |-> entry, prec |-> prec, method |-> method,
                 min_distance |-> md, cfg |-> cfg,
                 env |-> IF r.calls = <<>> THEN [env EXCEPT !.o = NoOutcome]
                         ELSE env]
    /\ result' = r
    /\ pc' = CASE r.kind = "return" -> "returned"
               [] r.kind = "crash" -> "crashed"
               [] OTHER -> "raised"
    /\ ncalls' = ncalls + 1
    /\ UNCHANGED <<build, conc>>

CallVertexFaceCCD ==
    /\ pc = "idle" /\ ncalls < MaxCalls
    /\ \E method \in MethodTags, cfg \in Configs :
         \E env \in Envs("Vertex-face", method) :
           Finish("vertexFaceCCD", "double", method, <<>>, cfg, env,
                  vertexFaceCCD(build, VFPoints, method, cfg.tolerance,
                                cfg.max_iter, cfg.err, env))

CallEdgeEdgeCCD ==
    /\ pc = "idle" /\ ncalls < MaxCalls
    /\ \E method \in MethodTags, cfg \in Configs :
         \E env \in Envs("Edge-edge", method) :
           Finish("edgeEdgeCCD", "double", method, <<>>, cfg, env,
                  edgeEdgeCCD(build, EEPoints, method, cfg.tolerance,
                              cfg.max_iter, cfg.err, env))

CallVertexFaceMSCCD ==
    /\ pc = "idle" /\ ncalls < MaxCalls
    /\ \E method \in MethodTags, cfg \in Configs, min_distance \in MinDistances :
         \E env \in Envs("Vertex-face", method) :
           Finish("vertexFaceMSCCD", "double", method, <<min_distance>>, cfg, env,
                  vertexFaceMSCCD(build, VFPoints, min_distance, method,
                                  cfg.tolerance, cfg.max_iter, cfg.err, env))

CallEdgeEdgeMSCCD ==
    /\ pc = "idle" /\ ncalls < MaxCalls
    /\ \E method \in MethodTags, cfg \in Configs, min_distance \in MinDistances :
         \E env \in Envs("Edge-edge", method) :
           Finish("edgeEdgeMSCCD", "double", method, <<min_distance>>, cfg, env,
                  edgeEdgeMSCCD(build, EEPoints, min_distance, method,
                                cfg.tolerance, cfg.max_iter, cfg.err, env))

CallVertexFaceCCD_float ==
    /\ pc = "idle" /\ ncalls < MaxCalls
    /\ \E method \in MethodTags, cfg \in Configs :
         \E env \in Envs("Vertex-face", method) :
           Finish("vertexFaceCCD", "float", method, <<>>, cfg, env,
                  vertexFaceCCD_float(build, VFPoints, method, cfg.tolerance,
                                      cfg.max_iter, cfg.err, env))

CallEdgeEdgeCCD_float ==
    /\ pc = "idle" /\ ncalls < MaxCalls
    /\ \E method \in MethodTags, cfg \in Configs :
         \E env \in Envs("Edge-edge", method) :
           Finish("edgeEdgeCCD", "float", method, <<>>, cfg, env,
                  edgeEdgeCCD_float(build, EEPoints, method, cfg.tolerance,
                                    cfg.max_iter, cfg.err, env))

CallVertexFaceMSCCD_float ==
    /\ pc = "idle" /\ ncalls < MaxCalls
    /\ \E method \in MethodTags, cfg \in Configs, min_distance \in MinDistances :
         \E env \in Envs("Vertex-face", method) :
           Finish("vertexFaceMSCCD", "float", method, <<min_distance>>, cfg, env,
                  vertexFaceMSCCD_float(build, VFPoints, min_distance, method,
                                        cfg.tolerance, cfg.max_iter, cfg.err, env))

CallEdgeEdgeMSCCD_float ==
    /\ pc = "idle" /\ ncalls < MaxCalls
    /\ \E method \in MethodTags, cfg \in Configs, min_distance \in MinDistances :
         \E env \in Envs("Edge-edge", method) :
           Finish("edgeEdgeMSCCD", "float", method, <<min_distance>>, cfg, env,
                  edgeEdgeMSCCD_float(build, EEPoints, min_distance, method,
                                      cfg.tolerance, cfg.max_iter, cfg.err, env))

\* The caller takes the boolean (or catches what was raised), drops the
\* query and its result, and is ready for the next query.  After a fault
\* of the process there is no next query.
NextQuery ==
    /\ pc \in {"returned", "raised"}
    /\ pc' = "idle"
    /\ query' = NoQuery
    /\ result' = NoResult
    /\ UNCHANGED <<build, ncalls, conc>>

Next ==
    \/ CallVertexFaceCCD
    \/ CallEdgeEdgeCCD
    \/ CallVertexFaceMSCCD
    \/ CallEdgeEdgeMSCCD
    \/ CallVertexFaceCCD_float
    \/ CallEdgeEdgeCCD_float
    \/ CallVertexFaceMSCCD_float
    \/ CallEdgeEdgeMSCCD_float
    \/ NextQuery

Spec == Init /\ [][Next]_vars

---------------------------------------------------------------------------
(* Queries on a vertex and a triangle at rest: the start and end positions *)
(* are the same and the vertex is at a positive distance from the          *)
(* triangle.  The backends answer as their contract says: a hit exactly    *)
(* when the two come closer than the separation the call asks for.         *)

Gaps == 1..MaxGap

\* a distance of d units, in the unit of the gaps
InGapUnits(d) == 10 * d

\* the separation a backend call asks for: the min_distance argument of
\* msccd::root_finder::vertexFaceMSCCD, the ms argument of
\* ticcd::vertexFaceCCD, contact (0) for every other backend
SeparationAsked(call) ==
    CASE call.fn = "msccd::root_finder::vertexFaceMSCCD" -> call.args[1][2][1]
      [] call.fn = "ticcd::vertexFaceCCD" -> call.args[2][2][1]
      [] OTHER -> 0

\* the backend's answer for primitives at rest, gap apart: no contact, and
\* a hit only if the gap is below the separation asked for
AtRestAnswer(call, gap) ==
    [kind |-> "ret", hit |-> gap < InGapUnits(SeparationAsked(call)),
     toi |-> 0, msg |-> ""]

\* the environment of a call on primitives at rest
AtRestEnv(calls, oob, gap) ==
    [o |-> IF calls = <<>> THEN NoOutcome
           ELSE AtRestAnswer(calls[Len(calls)], gap),
     oob |-> oob, uninit_err |-> <<0, 0, 0>>, gap |-> gap]

CallVertexFaceCCD_AtRest ==
    /\ pc = "idle" /\ ncalls < MaxCalls
    /\ \E method \in MethodTags, cfg \in Configs, gap \in Gaps :
         \E oob \in (IF method >= NUM_CCD_METHODS THEN OobOutcomes ELSE {"none"}) :
           LET asked == vertexFaceCCD(build, VFPoints, method, cfg.tolerance,
                                      cfg.max_iter, cfg.err,
                                      AtRestEnv(<<>>, oob, gap)).calls
               env == AtRestEnv(asked, oob, gap)
           IN  Finish("vertexFaceCCD", "double", method, <<>>, cfg, env,
                      vertexFaceCCD(build, VFPoints, method, cfg.tolerance,
                                    cfg.max_iter, cfg.err, env))

NextAtRest ==
    \/ CallVertexFaceCCD_AtRest
    \/ NextQuery

SpecAtRest == Init /\ [][NextAtRest]_vars

---------------------------------------------------------------------------
(* Concurrent queries: two threads, each calling a double-precision        *)
(* vertex-face entry point once, their statements interleaved.  The        *)
(* arguments are passed by value or by const reference and are left out.   *)

\* the methods the threads call with: one that checks the time of impact,
\* one that forwards with separation 0, one that calls its backend
\* directly, one outside the enumeration
ConcMethods ==
    { MIN_SEPARATION_ROOT_FINDER, ROOT_PARITY, TIGHT_INCLUSION, NUM_CCD_METHODS }

\* the builds of the concurrent runs: every backend compiled in, or none
ConcBuilds == { b \in Builds : \A f, g \in Flags : b[f] = b[g] }

\* a plausible slip: `static double toi; static bool hit;`, one storage for
\* every activation
Frame_Static(t) == "static"

\* `double toi;` and `bool hit` are automatic: every activation has its own
Frame(t) == t

InitConc ==
    /\ build \in ConcBuilds
    /\ pc = "idle"
    /\ query = NoQuery
    /\ result = NoResult
    /\ ncalls = 0
    /\ conc = NoConc

\* the thread t moves to s; the streams and the locals are as given
Step(t, s, mem, cerr, cout, crashed) ==
    /\ conc' = [th |-> [conc.th EXCEPT ![t] = s], mem |-> mem, cerr |-> cerr,
                cout |-> cout, crashed |-> crashed]
    /\ UNCHANGED <<build, pc, query, result, ncalls>>

\* the thread t moves to s and touches nothing else
Local(t, s) == Step(t, s, conc.mem, conc.cerr, conc.cout, conc.crashed)

\* `throw "..."` inside the try block
Raise(s, msg) == [s EXCEPT !.pc = "catch", !.msg = msg, !.form = "because"]

\* the thread calls vertexFaceCCD or vertexFaceMSCCD
Enter(t) ==
    /\ ~conc.crashed /\ conc.th[t].pc = "idle"
    /\ \E entry \in {"vertexFaceCCD", "vertexFaceMSCCD"}, method \in ConcMethods :
         Local(t, [ThreadIdle EXCEPT !.pc = "switch", !.entry = entry,
                                     !.body = entry, !.method = method])

\* `switch (method)` of vertexFaceCCD, ccd.cpp:70-274
SwitchGeneral(t) ==
    LET s == conc.th[t] IN
    /\ ~conc.crashed /\ s.pc = "switch" /\ s.body = "vertexFaceCCD"
    /\ Local(t,
         CASE s.method = MIN_SEPARATION_ROOT_FINDER ->
                IF build["CCD_WRAPPER_WITH_MSRF"]
                THEN [s EXCEPT !.body = "vertexFaceMSCCD"]
                ELSE Raise(s, NotEnabled)
           [] s.method = TIGHT_INCLUSION -> [s EXCEPT !.body = "vertexFaceMSCCD"]
           [] s.method = ROOT_PARITY ->
                IF build["CCD_WRAPPER_WITH_RP"]
                THEN [s EXCEPT !.pc = "call"]
                ELSE Raise(s, NotEnabled)
           [] OTHER -> Raise(s, "Invalid CCDMethod"))

\* `switch (method)` of vertexFaceMSCCD, ccd.cpp:538-593
SwitchMS(t) ==
    LET s == conc.th[t] IN
    /\ ~conc.crashed /\ s.pc = "switch" /\ s.body = "vertexFaceMSCCD"
    /\ Local(t,
         CASE s.method = MIN_SEPARATION_ROOT_FINDER ->
                IF build["CCD_WRAPPER_WITH_MSRF"]
                THEN [s EXCEPT !.pc = "call"]
                ELSE Raise(s, NotEnabled)
           [] s.method = TIGHT_INCLUSION ->
                IF TightInclusionDouble(build)
                THEN [s EXCEPT !.pc = "call"]
                ELSE Raise(s, NotEnabled)
           [] OTHER -> Raise(s, "Invalid Minimum Separation CCDMethod"))

\* The backend runs.  msccd::root_finder::vertexFaceMSCCD and
\* ticcd::vertexFaceCCD write toi through the reference they are given;
\* `bool hit = ...` stores the answer of the first.
Backend(t) ==
    LET s == conc.th[t] IN
    /\ ~conc.crashed /\ s.pc = "call"
    /\ \E o \in BackendOutcomes :
         CASE o.kind = "ret" /\ s.method = MIN_SEPARATION_ROOT_FINDER ->
                Step(t, [s EXCEPT !.pc = "check", !.o = o],
                     [conc.mem EXCEPT ![Frame(t)] = [toi |-> o.toi, hit |-> o.hit]],
                     conc.cerr, conc.cout, FALSE)
           [] o.kind = "ret" /\ s.method = TIGHT_INCLUSION ->
                Step(t, [s EXCEPT !.pc = "return", !.o = o, !.ret = o.hit],
                     [conc.mem EXCEPT ![Frame(t)].toi = o.toi],
                     conc.cerr, conc.cout, FALSE)
           [] o.kind = "ret" /\ s.method = ROOT_PARITY ->
                Local(t, [s EXCEPT !.pc = "return", !.o = o, !.ret = o.hit])
           [] o.kind = "throw_str" ->
                Local(t, [Raise(s, o.msg) EXCEPT !.o = o])
           [] OTHER ->
                Local(t, [s EXCEPT !.pc = "catch", !.o = o, !.form = "unknown"])

\* `if (hit && (toi < 0 || toi > 1)) { std::cout << toi << std::endl;
\* throw "toi out of range"; } return hit;`
CheckToi(t) ==
    LET s == conc.th[t]
        m == conc.mem[Frame(t)]
    IN
    /\ ~conc.crashed /\ s.pc = "check"
    /\ IF m.hit /\ ToiOutOfRange(m.toi)
       THEN Step(t, Raise(s, "toi out of range"), conc.mem, conc.cerr,
                 Append(conc.cout, <<t, m.toi>>), FALSE)
       ELSE Local(t, [s EXCEPT !.pc = "return", !.ret = m.hit])

\* a catch clause: one line on std::cerr, then `return true`.  For a method
\* outside the enumeration the read of method_names is out of bounds.
CatchClause(t) ==
    LET s == conc.th[t]
        line(name, complete) ==
          <<t, Diag("Vertex-face", s.form, s.msg, name, complete)>>
    IN
    /\ ~conc.crashed /\ s.pc = "catch"
    /\ IF s.method >= 0 /\ s.method < NUM_CCD_METHODS
       THEN Step(t, [s EXCEPT !.pc = "return", !.ret = TRUE], conc.mem,
                 Append(conc.cerr, line(method_names[s.method + 1], TRUE)),
                 conc.cout, FALSE)
       ELSE \E oob \in OobOutcomes :
              IF oob = "crash"
              THEN Step(t, [s EXCEPT !.pc = "crashed", !.oob = oob], conc.mem,
                        Append(conc.cerr, line("", FALSE)), conc.cout, TRUE)
              ELSE Step(t, [s EXCEPT !.pc = "return", !.ret = TRUE, !.oob = oob],
                        conc.mem, Append(conc.cerr, line("<garbage>", TRUE)),
                        conc.cout, FALSE)

\* the entry point returns to the caller
ReturnToCaller(t) ==
    /\ ~conc.crashed /\ conc.th[t].pc = "return"
    /\ Local(t, [conc.th[t] EXCEPT !.pc = "returned"])

NextConc ==
    \E t \in Threads :
        \/ Enter(t)
        \/ SwitchGeneral(t)
        \/ SwitchMS(t)
        \/ Backend(t)
        \/ CheckToi(t)
        \/ CatchClause(t)
        \/ ReturnToCaller(t)

SpecConc == InitConc /\ [][NextConc]_vars

---------------------------------------------------------------------------
(* Vocabulary of the properties *)

\* a call has ended and the caller has not yet moved on
Done == pc \in {"returned", "raised", "crashed"}

ReturnedTrue == result.kind = "return" /\ result.ret = TRUE

ReturnedFalse == result.kind = "return" /\ result.ret = FALSE

InEnumeration(method) == method >= 0 /\ method < NUM_CCD_METHODS

MSEntry == query.entry \in {"vertexFaceMSCCD", "edgeEdgeMSCCD"}

VertexFaceEntry == query.entry \in {"vertexFaceCCD", "vertexFaceMSCCD"}

\* the call reached a backend
Invoked == result.calls # <<>>

\* the backend function each method stands for (the libraries included at
\* ccd.cpp:6-50), for a vertex-face and for an edge-edge query
BackendOf(vertex_face, method) ==
    CASE method = FLOATING_POINT_ROOT_FINDER ->
           IF vertex_face THEN "CTCD::vertexFaceCTCD" ELSE "CTCD::edgeEdgeCTCD"
      [] method = MIN_SEPARATION_ROOT_FINDER ->
           IF vertex_face THEN "msccd::root_finder::vertexFaceMSCCD"
           ELSE "msccd::root_finder::edgeEdgeMSCCD"
      [] method = ROOT_PARITY -> "rootparity::RootParityCollisionTest"
      [] method = RATIONAL_ROOT_PARITY ->
           IF vertex_face THEN "eccd::vertexFaceCCD" ELSE "eccd::edgeEdgeCCD"
      [] method = FLOATING_POINT_ROOT_PARITY ->
           IF vertex_face THEN "doubleccd::vertexFaceCCD" ELSE "doubleccd::edgeEdgeCCD"
      [] method = RATIONAL_FIXED_ROOT_PARITY ->
           IF vertex_face THEN "ccd::vertexFaceCCD" ELSE "ccd::edgeEdgeCCD"
      [] method = BSC ->
           IF vertex_face THEN "bsc::Intersect_VF_robust" ELSE "bsc::Intersect_EE_robust"
      [] method = TIGHT_CCD ->
           IF vertex_face THEN "bsc_tightbound::Intersect_VF_robust"
           ELSE "bsc_tightbound::Intersect_EE_robust"
      [] method = SAFE_CCD ->
           IF vertex_face THEN "safeccd::SAFE_CCD::Vertex_Triangle_CCD"
           ELSE "safeccd::SAFE_CCD::Edge_Edge_CCD"
      [] method = UNIVARIATE_INTERVAL_ROOT_FINDER ->
           IF vertex_face THEN "intervalccd::vertexFaceCCD_Redon"
           ELSE "intervalccd::edgeEdgeCCD_Redon"
      [] method = MULTIVARIATE_INTERVAL_ROOT_FINDER ->
           IF vertex_face THEN "intervalccd::vertexFaceCCD_Interval"
           ELSE "intervalccd::edgeEdgeCCD_Interval"
      [] method = TIGHT_INCLUSION ->
           IF vertex_face THEN "ticcd::vertexFaceCCD" ELSE "ticcd::edgeEdgeCCD"
      [] OTHER -> "no backend"

\* the functions of the backend library of each method: the function that
\* answers the query and, for SAFE_CCD, the two that prepare the solver
BackendFunctions(vertex_face, method) ==
    { BackendOf(vertex_face, method) } \cup
      IF method = SAFE_CCD
      THEN { "safeccd::calculate_B", "safeccd::SAFE_CCD::Set_Coefficients" }
      ELSE {}

\* the backend of the requested method, and no other, was invoked and its
\* answer was false
BackendSaidNo ==
    /\ Invoked
    /\ \A i \in 1..Len(result.calls) :
         result.calls[i].fn \in BackendFunctions(VertexFaceEntry, query.method)
    /\ result.calls[Len(result.calls)].fn = BackendOf(VertexFaceEntry, query.method)
    /\ query.env.o.kind = "ret"
    /\ query.env.o.hit = FALSE

\* the backend was invoked and threw
BackendFault == Invoked /\ query.env.o.kind \in {"throw_str", "throw_other"}

\* the backend was invoked and reported a hit with a time of impact
\* outside [0, 1]
ToiViolation ==
    /\ Invoked
    /\ query.env.o.kind = "ret"
    /\ query.env.o.hit
    /\ (query.env.o.toi < 0 \/ query.env.o.toi > 1)

---------------------------------------------------------------------------
(* C1 *)

\* C1 (as claimed): a double-precision entry point returns false only if the
\* backend selected by the method was invoked and returned false; on every
\* other path (disabled or invalid method, backend fault, time-of-impact
\* violation) it returns true.
C1_FalseOnlyFromBackend ==
    (Done /\ query.prec = "double" /\ ~BackendSaidNo) => ReturnedTrue

---------------------------------------------------------------------------
(* C2 *)

\* C2: in the double-precision entry points a fault raised by the backend,
\* a thrown string or any other exception, is caught: the call returns true
\* and nothing propagates to the caller.
C2_BackendFaultCaught ==
    (Done /\ query.prec = "double" /\ BackendFault) => ReturnedTrue

C2_Witness ==
    /\ pc = "returned" /\ query.prec = "double"
    /\ Invoked /\ query.env.o.kind = "throw_other"
    /\ result.ret = TRUE
    /\ Len(result.cerr) = 1 /\ result.cerr[1].form = "unknown"

---------------------------------------------------------------------------
(* C3 *)

\* C3 (as claimed): for a method m of the enumeration that is_method_enabled
\* reports disabled, every entry point, at either precision, returns true
\* and raises nothing.
C3_DisabledReturnsTrue ==
    (Done /\ InEnumeration(query.method)
          /\ ~is_method_enabled(build, query.method)) => ReturnedTrue

\* single-precision vertexFaceCCD with a method other than TIGHT_INCLUSION
FloatVertexFaceUnimplemented ==
    /\ query.prec = "float" /\ query.entry = "vertexFaceCCD"
    /\ query.method # TIGHT_INCLUSION

\* C3 (amended): for a method m of the enumeration that is_method_enabled
\* reports disabled, every entry point returns true and raises nothing,
\* except single-precision vertexFaceCCD, which raises "Unimplemented" when
\* m is not TIGHT_INCLUSION.
C3_DisabledReturnsTrueOrUnimplemented ==
    (Done /\ InEnumeration(query.method)
          /\ ~is_method_enabled(build, query.method)) =>
        IF FloatVertexFaceUnimplemented
        THEN result.kind = "throw_str" /\ result.msg = "Unimplemented"
        ELSE ReturnedTrue

C3_Witness ==
    /\ pc = "returned" /\ query.prec = "double"
    /\ InEnumeration(query.method) /\ ~is_method_enabled(build, query.method)
    /\ ~is_minimum_separation_method(query.method)
    /\ query.entry = "edgeEdgeCCD"
    /\ result.ret = TRUE
    /\ Len(result.cerr) = 1 /\ result.cerr[1].cause = NotEnabled

---------------------------------------------------------------------------
(* C4 *)

\* C4 (as claimed): for a method value outside the enumeration each
\* double-precision entry point completes without fault, returns true and
\* emits one complete diagnostic that names the method and the cause.
C4_InvalidMethodHandled ==
    (Done /\ query.prec = "double" /\ ~InEnumeration(query.method)) =>
        /\ ReturnedTrue
        /\ Len(result.cerr) = 1
        /\ result.cerr[1].complete
        /\ result.cerr[1].name # "<garbage>"
        /\ result.cerr[1].cause \in
             {"Invalid CCDMethod", "Invalid Minimum Separation CCDMethod"}

---------------------------------------------------------------------------
(* C5 *)

\* C5 (as claimed): in double-precision vertexFaceMSCCD and edgeEdgeMSCCD, when the backend
\* of an accepted method (MIN_SEPARATION_ROOT_FINDER, TIGHT_INCLUSION)
\* returns hit = true with a time of impact outside [0, 1], the call returns
\* true and records a diagnostic with the cause "toi out of range".
C5_ToiViolationReported ==
    (Done /\ query.prec = "double" /\ MSEntry /\ ToiViolation) =>
        /\ ReturnedTrue
        /\ \E i \in 1..Len(result.cerr) : result.cerr[i].cause = "toi out of range"

---------------------------------------------------------------------------
(* C6 *)

\* C6 (as claimed): at single precision every entry point called with a
\* method of the enumeration other than TIGHT_INCLUSION raises
\* "Unimplemented" to the caller and never returns the conservative true.
C6_FloatRaisesUnimplemented ==
    (Done /\ query.prec = "float" /\ InEnumeration(query.method)
          /\ query.method # TIGHT_INCLUSION) =>
        (result.kind = "throw_str" /\ result.msg = "Unimplemented")

---------------------------------------------------------------------------
(* C7 *)

\* C7 (as claimed): the minimum-separation dispatchers invoke a backend
\* exactly for the methods for which is_minimum_separation_method is true;
\* for every other method of the enumeration they invoke no backend, report
\* the invalid-method cause and return true.
C7_BackendIffMinimumSeparation ==
    (Done /\ MSEntry /\ InEnumeration(query.method)) =>
        /\ Invoked <=> is_minimum_separation_method(query.method)
        /\ ~is_minimum_separation_method(query.method) =>
             /\ ReturnedTrue
             /\ Len(result.cerr) = 1
             /\ result.cerr[1].cause = "Invalid Minimum Separation CCDMethod"

\* the backend of a minimum-separation method is compiled in for the
\* precision of the query
BackendCompiledIn ==
    CASE query.prec = "double" /\ query.method = MIN_SEPARATION_ROOT_FINDER ->
           build["CCD_WRAPPER_WITH_MSRF"]
      [] query.prec = "double" /\ query.method = TIGHT_INCLUSION ->
           TightInclusionDouble(build)
      [] query.prec = "float" /\ query.method = TIGHT_INCLUSION ->
           TightInclusionFloat(build)
      [] OTHER -> FALSE

\* C7 (amended): the minimum-separation dispatchers invoke a backend only
\* for methods for which is_minimum_separation_method is true, and for such
\* a method exactly when its backend is compiled in for the dispatcher's
\* precision; for every other method of the enumeration they invoke no
\* backend, report "Invalid Minimum Separation CCDMethod" and return true.
C7_BackendOnlyForMinimumSeparation ==
    (Done /\ MSEntry /\ InEnumeration(query.method)) =>
        /\ Invoked => is_minimum_separation_method(query.method)
        /\ is_minimum_separation_method(query.method) =>
             (Invoked <=> BackendCompiledIn)
        /\ ~is_minimum_separation_method(query.method) =>
             /\ ~Invoked
             /\ ReturnedTrue
             /\ Len(result.cerr) = 1
             /\ result.cerr[1].cause = "Invalid Minimum Separation CCDMethod"

C7_Witness ==
    /\ pc = "returned" /\ MSEntry /\ query.prec = "double"
    /\ query.method = TIGHT_INCLUSION
    /\ Invoked /\ result.calls[1].fn = "ticcd::edgeEdgeCCD"
    /\ result.ret = FALSE

---------------------------------------------------------------------------
(* C8 *)

\* what the caller can observe of a call, and the backend invocations made
Observable(r) ==
    [kind |-> r.kind, ret |-> r.ret, msg |-> r.msg, cerr |-> r.cerr,
     cout |-> r.cout, calls |-> r.calls]

\* C8: with the same points, tolerance, max_iter and err and the same
\* behaviour of the backend, vertexFaceCCD(..., TIGHT_INCLUSION, ...) returns
\* the same boolean and emits the same diagnostics as
\* vertexFaceMSCCD(..., 0, TIGHT_INCLUSION, ...), the backend being invoked
\* with the same arguments; likewise edgeEdgeCCD and edgeEdgeMSCCD.
C8_TightInclusionIsZeroSeparation ==
    (Done /\ query.prec = "double" /\ query.method = TIGHT_INCLUSION) =>
        /\ query.entry = "vertexFaceCCD" =>
             Observable(result) =
               Observable(vertexFaceMSCCD(build, VFPoints, 0, TIGHT_INCLUSION,
                                          query.cfg.tolerance, query.cfg.max_iter,
                                          query.cfg.err, query.env))
        /\ query.entry = "edgeEdgeCCD" =>
             Observable(result) =
               Observable(edgeEdgeMSCCD(build, EEPoints, 0, TIGHT_INCLUSION,
                                        query.cfg.tolerance, query.cfg.max_iter,
                                        query.cfg.err, query.env))

C8_Witness ==
    /\ pc = "returned" /\ query.prec = "double"
    /\ query.entry = "vertexFaceCCD" /\ query.method = TIGHT_INCLUSION
    /\ Invoked /\ result.calls[1].fn = "ticcd::vertexFaceCCD"
    /\ result.calls[1].args[2] = Arg("ms", 0)
    /\ result.ret = FALSE
    /\ result.depth > 1

---------------------------------------------------------------------------
(* C9 *)

\* C9: when the selected backend returns normally (and, for a
\* minimum-separation method, a reported time of impact lies in [0, 1]),
\* the entry point returns exactly the backend's boolean and writes no
\* diagnostic.
C9_NormalReturnPassedThrough ==
    (Done /\ Invoked /\ query.env.o.kind = "ret"
          /\ (is_minimum_separation_method(query.method) => ~ToiViolation)) =>
        /\ result.kind = "return"
        /\ result.ret = query.env.o.hit
        /\ result.cerr = <<>>
        /\ result.cout = <<>>

C9_Witness ==
    /\ pc = "returned"
    /\ query.entry = "vertexFaceMSCCD" /\ query.method = MIN_SEPARATION_ROOT_FINDER
    /\ Invoked /\ query.env.o.kind = "ret"
    /\ query.env.o.hit /\ query.env.o.toi = 1
    /\ result.ret = TRUE /\ result.cerr = <<>>

---------------------------------------------------------------------------
(* C10 *)

\* C10 (as claimed): a call with a method of the enumeration that ends on a
\* failure path emits exactly one diagnostic record, naming the method and
\* the cause, and writes nothing else; also when the failure happens in the
\* minimum-separation dispatcher a general dispatcher forwarded to.
C10_OneRecordNothingElse ==
    (Done /\ query.prec = "double" /\ InEnumeration(query.method)
          /\ result.cerr # <<>>) =>
        /\ Len(result.cerr) = 1
        /\ result.cerr[1].name = method_names[query.method + 1]
        /\ result.cout = <<>>

---------------------------------------------------------------------------
(* C11 *)

\* each point of a query: the primitive it belongs to and its instant
PointTable ==
    [ vertex_start |-> <<"vertex", "start">>,
      face_vertex0_start |-> <<"face_vertex0", "start">>,
      face_vertex1_start |-> <<"face_vertex1", "start">>,
      face_vertex2_start |-> <<"face_vertex2", "start">>,
      vertex_end |-> <<"vertex", "end">>,
      face_vertex0_end |-> <<"face_vertex0", "end">>,
      face_vertex1_end |-> <<"face_vertex1", "end">>,
      face_vertex2_end |-> <<"face_vertex2", "end">>,
      edge0_vertex0_start |-> <<"edge0_vertex0", "start">>,
      edge0_vertex1_start |-> <<"edge0_vertex1", "start">>,
      edge1_vertex0_start |-> <<"edge1_vertex0", "start">>,
      edge1_vertex1_start |-> <<"edge1_vertex1", "start">>,
      edge0_vertex0_end |-> <<"edge0_vertex0", "end">>,
      edge0_vertex1_end |-> <<"edge0_vertex1", "end">>,
      edge1_vertex0_end |-> <<"edge1_vertex0", "end">>,
      edge1_vertex1_end |-> <<"edge1_vertex1", "end">> ]

AtInstant(instant, point) == PointTable[point][2] = instant

\* the primitives of one instant, in the order a backend call lists them
PrimitivesAt(instant, pts) ==
    LET s == SelectSeq(pts, LAMBDA x : AtInstant(instant, x))
    IN  [i \in 1..Len(s) |-> PointTable[s[i]][1]]

\* the order of the four points of one instant that the claim gives for
\* each method
ClaimedOrder(entry, method) ==
    CASE entry = "edgeEdgeCCD" ->
           <<"edge0_vertex0", "edge0_vertex1", "edge1_vertex0", "edge1_vertex1">>
      [] entry = "vertexFaceCCD" /\ method = ROOT_PARITY ->
           <<"vertex", "face_vertex1", "face_vertex0", "face_vertex2">>
      [] entry = "vertexFaceCCD" /\ method \in {BSC, TIGHT_CCD} ->
           <<"face_vertex0", "face_vertex1", "face_vertex2", "vertex">>
      [] OTHER ->
           <<"vertex", "face_vertex0", "face_vertex1", "face_vertex2">>

\* C11: every backend call of vertexFaceCCD that takes points takes all
\* eight, and lists the four of the start instant and the four of the end
\* instant in the same order: (point, face_vertex1, face_vertex0,
\* face_vertex2) for ROOT_PARITY, (face_vertex0, face_vertex1, face_vertex2,
\* point) for BSC and TIGHT_CCD, (point, face_vertex0, face_vertex1,
\* face_vertex2) for every other method; every backend call of edgeEdgeCCD
\* lists (edge0_vertex0, edge0_vertex1, edge1_vertex0, edge1_vertex1).
C11_BackendPointOrder ==
    (Done /\ Invoked /\ query.entry \in {"vertexFaceCCD", "edgeEdgeCCD"}) =>
        \A i \in 1..Len(result.calls) :
            result.calls[i].pts # <<>> =>
              /\ Len(result.calls[i].pts) = 8
              /\ PrimitivesAt("start", result.calls[i].pts)
                    = ClaimedOrder(query.entry, query.method)
              /\ PrimitivesAt("end", result.calls[i].pts)
                    = ClaimedOrder(query.entry, query.method)

C11_Witness ==
    /\ pc = "returned" /\ query.entry = "vertexFaceCCD"
    /\ query.method = ROOT_PARITY
    /\ Invoked
    /\ result.calls[1].pts[2] = "face_vertex1_start"
    /\ result.calls[1].pts[7] = "face_vertex0_end"

---------------------------------------------------------------------------
(* C12 *)

\* C12 (as claimed): when vertexFaceMSCCD or edgeEdgeMSCCD, at either
\* precision, invokes the TIGHT_INCLUSION backend, the backend's parameters
\* err, ms, tolerance and max_itr receive the caller's err, min_distance,
\* tolerance and max_iter.
C12_ConfigForwardedUnchanged ==
    (Done /\ MSEntry /\ query.method = TIGHT_INCLUSION /\ Invoked) =>
        /\ result.calls[1].args[1] = <<"err", query.cfg.err>>
        /\ result.calls[1].args[2] = Arg("ms", query.min_distance[1])
        /\ result.calls[1].args[3] = Arg("tolerance", query.cfg.tolerance)
        /\ result.calls[1].args[5] = Arg("max_itr", query.cfg.max_iter)

---------------------------------------------------------------------------
(* C13 *)

\* the call went through vertexFaceCCD or edgeEdgeCCD
GeneralEntry == query.entry \in {"vertexFaceCCD", "edgeEdgeCCD"}

\* C13 (as claimed): when vertexFaceCCD or edgeEdgeCCD, called with
\* MIN_SEPARATION_ROOT_FINDER, forwards to the minimum-separation
\* dispatcher, the minimum separation it passes is DEFAULT_MIN_DISTANCE,
\* which is strictly positive; a general dispatcher passes a minimum
\* separation of 0 only when the method is TIGHT_INCLUSION.
C13_ZeroSeparationOnlyForTightInclusion ==
    (Done /\ GeneralEntry /\ result.fwd # <<>>) =>
        /\ DEFAULT_MIN_DISTANCE > 0
        /\ query.method = MIN_SEPARATION_ROOT_FINDER =>
             result.fwd = <<DEFAULT_MIN_DISTANCE>>
        /\ (\E i \in 1..Len(result.fwd) : result.fwd[i] = 0) =>
             query.method = TIGHT_INCLUSION

---------------------------------------------------------------------------
(* C14 *)

\* the call wrote the "toi out of range" diagnostic
ToiReported ==
    \E i \in 1..Len(result.cerr) : result.cerr[i].cause = "toi out of range"

\* C14 (as claimed): the minimum-separation dispatchers work over the
\* caller's max_time_window: it is the maximum time passed to the
\* TIGHT_INCLUSION backend, and a hit of the MIN_SEPARATION_ROOT_FINDER
\* backend is reported as out of range exactly when its time of impact is
\* outside [0, max_time_window].
C14_WindowIsCallerSupplied ==
    (Done /\ MSEntry /\ Invoked) =>
        /\ query.method = TIGHT_INCLUSION =>
             result.calls[1].args[4] = Arg("t_max", query.cfg.max_time_window)
        /\ (query.method = MIN_SEPARATION_ROOT_FINDER
              /\ query.env.o.kind = "ret" /\ query.env.o.hit) =>
             (ToiReported <=> (query.env.o.toi < 0
                                \/ query.env.o.toi > query.cfg.max_time_window))

\* C14 (amended): the minimum-separation dispatchers work over the fixed
\* window [0, 1], whatever window the caller wants: the maximum time passed
\* to the TIGHT_INCLUSION backend is 1, and a hit of the
\* MIN_SEPARATION_ROOT_FINDER backend is reported as out of range exactly
\* when its time of impact is outside [0, 1].
C14_WindowIsFixed ==
    (Done /\ MSEntry /\ Invoked) =>
        /\ query.method = TIGHT_INCLUSION =>
             result.calls[1].args[4] = Arg("t_max", 1)
        /\ (query.method = MIN_SEPARATION_ROOT_FINDER
              /\ query.env.o.kind = "ret" /\ query.env.o.hit) =>
             (ToiReported <=> (query.env.o.toi < 0 \/ query.env.o.toi > 1))

C14_Witness ==
    /\ pc = "returned" /\ MSEntry /\ query.prec = "double"
    /\ query.method = TIGHT_INCLUSION /\ query.cfg.max_time_window = 2
    /\ Invoked /\ result.calls[1].args[4] = Arg("t_max", 1)
    /\ query.env.o.kind = "ret"

---------------------------------------------------------------------------
(* C15 *)

\* what the call of thread t does when no other call runs: the same entry
\* point, method and build, and the same behaviour of the backend
Alone(t) ==
    LET s == conc.th[t]
        env == [o |-> s.o, oob |-> s.oob, uninit_err |-> <<0, 0, 0>>]
    IN  IF s.entry = "vertexFaceCCD"
        THEN vertexFaceCCD(build, VFPoints, s.method, DefaultConfig.tolerance,
                           DefaultConfig.max_iter, DefaultConfig.err, env)
        ELSE vertexFaceMSCCD(build, VFPoints, DEFAULT_MIN_DISTANCE, s.method,
                             DefaultConfig.tolerance, DefaultConfig.max_iter,
                             DefaultConfig.err, env)

\* what thread t wrote on a stream, in order
WrittenBy(t, stream) ==
    LET own == SelectSeq(stream, LAMBDA x : x[1] = t)
    IN  [i \in 1..Len(own) |-> own[i][2]]

\* C15: of two queries running at the same time, in any interleaving of
\* their statements, each returns the boolean it returns when run alone,
\* and writes the diagnostics it writes when run alone: the calls share
\* nothing but the streams they append to.
C15_ConcurrentAsAlone ==
    \A t \in Threads :
        conc.th[t].pc = "returned" =>
            /\ Alone(t).kind = "return"
            /\ conc.th[t].ret = Alone(t).ret
            /\ WrittenBy(t, conc.cerr) = Alone(t).cerr
            /\ WrittenBy(t, conc.cout) = Alone(t).cout

\* both calls were between the backend's return and the check of the time
\* of impact at the same time, with different answers, and both returned
C15_Witness ==
    /\ \A t \in Threads :
         /\ conc.th[t].pc = "returned"
         /\ conc.th[t].method = MIN_SEPARATION_ROOT_FINDER
         /\ conc.th[t].o.kind = "ret"
    /\ conc.th["A"].o.hit /\ conc.th["A"].o.toi = 2 /\ conc.th["A"].ret = TRUE
    /\ ~conc.th["B"].o.hit /\ conc.th["B"].ret = FALSE
    /\ Len(conc.cerr) = 1 /\ conc.cout = << <<"A", 2>> >>

---------------------------------------------------------------------------
(* C16 *)

\* the answers of the four introspection predicates for a method, in a build
Introspection(b, method) ==
    [enabled |-> is_method_enabled(b, method),
     toi_computed |-> is_time_of_impact_computed(method),
     minimum_separation |-> is_minimum_separation_method(method),
     conservative |-> is_conservative_method(method)]

\* C16: no call of an entry point, successful or failing, changes the
\* answer of an introspection predicate for any method: a method reported
\* disabled stays reported disabled, an enabled one enabled.
C16_RegistryUnchangedByCalls ==
    [][\A m \in MethodTags : Introspection(build', m) = Introspection(build, m)]_vars

\* a second call has failed on a method that is still reported enabled
C16_Witness ==
    /\ pc = "returned" /\ ncalls = 2
    /\ query.method = MIN_SEPARATION_ROOT_FINDER
    /\ BackendFault /\ result.cerr # <<>>
    /\ is_method_enabled(build, query.method)

---------------------------------------------------------------------------
(* C17 *)

\* C17 (as claimed): for every method is_method_enabled reports enabled,
\* vertexFaceCCD on a vertex and a triangle at rest and apart returns
\* false, whatever the positive gap between them.
C17_AtRestReturnsFalse ==
    (Done /\ query.entry = "vertexFaceCCD" /\ query.prec = "double"
          /\ is_method_enabled(build, query.method)) => ReturnedFalse

---------------------------------------------------------------------------
(* C18 *)

\* C18 (as claimed): when is_method_enabled reports a method enabled, a
\* double-precision entry point that accepts the method invokes the
\* method's backend and does not take the "CCD method is not enabled" path.
C18_EnabledMeansBackendInvoked ==
    (Done /\ query.prec = "double" /\ is_method_enabled(build, query.method)
          /\ (MSEntry => is_minimum_separation_method(query.method))) =>
        /\ Invoked
        /\ result.calls[Len(result.calls)].fn
             = BackendOf(VertexFaceEntry, query.method)
        /\ \A i \in 1..Len(result.cerr) : result.cerr[i].cause # NotEnabled

---------------------------------------------------------------------------
(* C19 *)

\* C19: every backend function a call invokes belongs to the backend of the
\* requested method, and the function that answers the query is invoked at
\* most once: no call reaches the backend of another method, and no call
\* asks a backend twice.
C19_OnlyTheRequestedBackend ==
    Done =>
        /\ \A i \in 1..Len(result.calls) :
             result.calls[i].fn \in BackendFunctions(VertexFaceEntry, query.method)
        /\ Cardinality({ i \in 1..Len(result.calls) :
                           result.calls[i].fn
                             = BackendOf(VertexFaceEntry, query.method) }) <= 1

\* a call whose backend faulted ended after that one invocation
C19_Witness ==
    /\ pc = "returned" /\ query.entry = "edgeEdgeCCD" /\ query.prec = "double"
    /\ query.method = ROOT_PARITY
    /\ BackendFault
    /\ Len(result.calls) = 1
    /\ result.calls[1].fn = "rootparity::RootParityCollisionTest"
    /\ result.ret = TRUE

---------------------------------------------------------------------------
(* C20 *)

\* C20 (as claimed): every call of an entry point ends, after at most one
\* forwarding from a general dispatcher to a minimum-separation dispatcher,
\* by returning a boolean or, at single precision, by raising
\* "Unimplemented".
C20_CallEndsWithBooleanOrUnimplemented ==
    Done =>
        /\ result.depth <= 2
        /\ Len(result.fwd) <= 1
        /\ MSEntry => result.fwd = <<>>
        /\ \/ result.kind = "return"
           \/ /\ query.prec = "float"
              /\ result.kind = "throw_str" /\ result.msg = "Unimplemented"

---------------------------------------------------------------------------
(* C21 *)

\* the minimum-separation dispatcher took the method: it did not report
\* "Invalid Minimum Separation CCDMethod"
AcceptedByMS ==
    /\ MSEntry
    /\ \A i \in 1..Len(result.cerr) :
         result.cerr[i].cause # "Invalid Minimum Separation CCDMethod"

\* C21: for every method tag, is_minimum_separation_method implies
\* is_conservative_method and is_time_of_impact_computed; so every method a
\* minimum-separation dispatcher accepts is registered as conservative and
\* as computing a time of impact.
C21_MinimumSeparationIsConservativeWithToi ==
    Done =>
        /\ is_minimum_separation_method(query.method) =>
             /\ is_conservative_method(query.method)
             /\ is_time_of_impact_computed(query.method)
        /\ AcceptedByMS =>
             /\ is_conservative_method(query.method)
             /\ is_time_of_impact_computed(query.method)

C21_Witness ==
    /\ pc = "returned" /\ AcceptedByMS /\ Invoked
    /\ query.method = TIGHT_INCLUSION
    /\ is_minimum_separation_method(query.method)
    /\ is_conservative_method(query.method)
    /\ is_time_of_impact_computed(query.method)

---------------------------------------------------------------------------
(* C22 *)

\* C22: for a tag outside the enumeration (NUM_CCD_METHODS or larger) the
\* four introspection predicates answer false, in every build.
C22_OutsideEnumerationAllFalse ==
    (Done /\ query.method >= NUM_CCD_METHODS) =>
        /\ ~is_method_enabled(build, query.method)
        /\ ~is_time_of_impact_computed(query.method)
        /\ ~is_minimum_separation_method(query.method)
        /\ ~is_conservative_method(query.method)

\* a call was made with a tag beyond NUM_CCD_METHODS in a build with every
\* backend compiled in, and the predicates answer false for it
C22_Witness ==
    /\ Done /\ query.method > NUM_CCD_METHODS
    /\ \A f \in Flags : build[f]
    /\ Introspection(build, query.method)
         = [enabled |-> FALSE, toi_computed |-> FALSE,
            minimum_separation |-> FALSE, conservative |-> FALSE]

====
